---- MODULE Spec2Model ----
(***************************************************************************)
(* Model of the interactive NBA results viewer (src/src/main.rs): the      *)
(* terminal setup / run loop / teardown of main(), the input handler       *)
(* update(), the data fetcher get_nba_data() with parse_json(), and the    *)
(* renderer ui(); SpecRT sends GameData values through the derived         *)
(* Serialize and parse_json; SpecOld is the one-shot variant of            *)
(* src/src/old.rs.                                                         *)
(*                                                                         *)
(* Time is counted in ticks, TicksPerDay ticks to a day; a DateTime<Utc>   *)
(* is a tick count and its calendar day is the tick count divided by       *)
(* TicksPerDay, rounded down.                                              *)
(***************************************************************************)
EXTENDS Integers, Sequences, FiniteSets, TLC

VARIABLES
    pc,          \* position of the process in main()/run()
    now,         \* the wall clock read by Utc::now()
    app,         \* struct App: day, should_quit, game_data
    raw_mode,    \* terminal is in raw mode
    alt_screen,  \* terminal is on the alternate screen
    result,      \* the Result returned by run(): "none", "ok", "err"
    exit_code,   \* -1 while running, 0 success, 1 error from main, 101 panic
    frame,       \* widgets of the last drawn frame
    iter,        \* number of update() calls so far
    lastEv,      \* the input delivered to update() in the current loop iteration
    nfetch,      \* number of get_nba_data() calls so far
    lastFetch,   \* the latest get_nba_data() call: request, failure, return
    base,        \* app.day as of the latest `t` press (or of construction)
    sum,         \* ticks of the nominal key offsets handled since `base`
    renders,     \* number of completed ui() renders
    teardown,    \* shutdown() has been called
    setup_ok,    \* startup() returned Ok
    rt,          \* a GameData value on its way through serialize / parse_json
    os           \* the one-shot variant (src/src/old.rs): its process state

vars == <<pc, now, app, raw_mode, alt_screen, result, exit_code, frame, iter,
          lastEv, nfetch, lastFetch, base, sum, renders, teardown, setup_ok, rt, os>>

\* the state of the interactive viewer, and the state outside it
viewerVars == <<pc, now, app, raw_mode, alt_screen, result, exit_code, frame, iter,
                lastEv, nfetch, lastFetch, base, sum, renders, teardown, setup_ok>>
auxVars == <<rt, os>>

----------------------------------------------------------------------------
\* Bounds of the model.
MaxClock == 3
MaxIter == 2
TicksPerDay == 2
MaxGames == 2

\* Duration::days(7) is a week of days.
WeekDays == 7

----------------------------------------------------------------------------
\* Option<T>
None == [some |-> FALSE]
Some(x) == [some |-> TRUE, val |-> x]

----------------------------------------------------------------------------
\* JSON documents as serde_json reads them.
JNull == [null |-> TRUE]
JNum(n) == [num |-> n]
JStr(s) == [str |-> s]
JBool(b) == [bool |-> b]
JArr(s) == [arr |-> s]
JObj(f) == [obj |-> f]
\* a response body that is not JSON text at all
NotJson == [garbage |-> TRUE]

IsNull(v) == DOMAIN v = {"null"}
IsStr(v) == DOMAIN v = {"str"}
IsBool(v) == DOMAIN v = {"bool"}
IsArr(v) == DOMAIN v = {"arr"}
IsObj(v) == DOMAIN v = {"obj"}
\* a JSON number that fits an unsigned integer field
IsU32(v) == DOMAIN v = {"num"} /\ v.num >= 0

Has(o, fields) == fields \subseteq DOMAIN o

\* an Option<T> field: a missing key and null both read as None
OptField(o, k) == IF k \in DOMAIN o THEN o[k] ELSE JNull

TeamFields == {"id", "abbreviation", "city", "conference", "division", "full_name", "name"}

TeamOk(v) ==
    /\ IsObj(v)
    /\ Has(v.obj, TeamFields)
    /\ IsU32(v.obj.id)
    /\ \A k \in TeamFields \ {"id"} : IsStr(v.obj[k])

DecodeTeam(v) ==
    [id |-> v.obj.id.num,
     abbreviation |-> v.obj.abbreviation.str,
     city |-> v.obj.city.str,
     conference |-> v.obj.conference.str,
     division |-> v.obj.division.str,
     full_name |-> v.obj.full_name.str,
     name |-> v.obj.name.str]

GameFields == {"id", "date", "home_team", "home_team_score", "period", "postseason",
               "season", "status", "visitor_team", "visitor_team_score"}

GameOk(v) ==
    /\ IsObj(v)
    /\ Has(v.obj, GameFields)
    /\ \A k \in {"id", "home_team_score", "period", "season", "visitor_team_score"} :
          IsU32(v.obj[k])
    /\ \A k \in {"date", "status"} : IsStr(v.obj[k])
    /\ IsBool(v.obj.postseason)
    /\ TeamOk(v.obj.home_team)
    /\ TeamOk(v.obj.visitor_team)
    /\ (IsNull(OptField(v.obj, "time")) \/ IsStr(OptField(v.obj, "time")))

\* an Option<String> field that is read as None whatever it holds
DecodeOptStr_drop(v) == None

DecodeOptStr(v) == IF IsNull(v) THEN None ELSE Some(v.str)
DecodeOptU32(v) == IF IsNull(v) THEN None ELSE Some(v.num)

DecodeGame(v) ==
    [id |-> v.obj.id.num,
     date |-> v.obj.date.str,
     home_team |-> DecodeTeam(v.obj.home_team),
     home_team_score |-> v.obj.home_team_score.num,
     period |-> v.obj.period.num,
     postseason |-> v.obj.postseason.bool,
     season |-> v.obj.season.num,
     status |-> v.obj.status.str,
     time |-> DecodeOptStr(OptField(v.obj, "time")),
     visitor_team |-> DecodeTeam(v.obj.visitor_team),
     visitor_team_score |-> v.obj.visitor_team_score.num]

MetaOk(v) ==
    /\ IsObj(v)
    /\ Has(v.obj, {"current_page", "per_page"})
    /\ IsU32(v.obj.current_page)
    /\ IsU32(v.obj.per_page)
    /\ (IsNull(OptField(v.obj, "next_page")) \/ IsU32(OptField(v.obj, "next_page")))

DecodeMeta(v) ==
    [current_page |-> v.obj.current_page.num,
     next_page |-> DecodeOptU32(OptField(v.obj, "next_page")),
     per_page |-> v.obj.per_page.num]

GameDataOk(v) ==
    /\ IsObj(v)
    /\ Has(v.obj, {"data", "meta"})
    /\ IsArr(v.obj.data)
    /\ \A i \in 1..Len(v.obj.data.arr) : GameOk(v.obj.data.arr[i])
    /\ MetaOk(v.obj.meta)

DecodeGameData(v) ==
    [data |-> [i \in 1..Len(v.obj.data.arr) |-> DecodeGame(v.obj.data.arr[i])],
     meta |-> DecodeMeta(v.obj.meta)]

\* parse_json: the decoded GameData, or a panic
parse_json(json_data) ==
    IF GameDataOk(json_data)
    THEN [panic |-> FALSE, val |-> DecodeGameData(json_data)]
    ELSE [panic |-> TRUE]

----------------------------------------------------------------------------
\* Response bodies the remote API may send.
JTeam(id, abbr) ==
    JObj([id |-> JNum(id), abbreviation |-> JStr(abbr), city |-> JStr("city"),
          conference |-> JStr("West"), division |-> JStr("Pacific"),
          full_name |-> JStr("full"), name |-> JStr("name")])

JGame(id, home, hs, vs, visitor) ==
    [id |-> JNum(id), date |-> JStr("2023-01-15T00:00:00.000Z"),
     home_team |-> JTeam(1, home), home_team_score |-> JNum(hs),
     period |-> JNum(4), postseason |-> JBool(FALSE), season |-> JNum(2022),
     status |-> JStr("Final"), visitor_team |-> JTeam(2, visitor),
     visitor_team_score |-> JNum(vs)]

JMeta == JObj([current_page |-> JNum(1), next_page |-> JNull, per_page |-> JNum(25)])

JDoc(games) == JObj([data |-> JArr(games), meta |-> JMeta])

G1 == JGame(1, "LAL", 101, 99, "BOS")
G2 == JGame(2, "NYK", 88, 90, "MIA")

WithTime(g, t) == [k \in DOMAIN g \cup {"time"} |-> IF k = "time" THEN t ELSE g[k]]

Bodies ==
    { JDoc(<<>>),
      JDoc(<<JObj(G1), JObj(WithTime(G2, JStr("7:30 PM")))>>),
      JDoc(<<JObj(WithTime(G1, JNull)), JObj(WithTime(G2, JStr("7:30 PM")))>>),
      JDoc(<<JObj(WithTime(G1, JNum(7)))>>),
      JDoc(<<JObj([G1 EXCEPT !.home_team_score = JStr("101")])>>),
      JObj([data |-> JArr(<<>>)]),
      JObj([message |-> JStr("Too many requests")]),
      NotJson }

\* What the network does with one request.
SendErr == [sent |-> FALSE]
BodyErr == [sent |-> TRUE, read |-> FALSE]
BodyOk(b) == [sent |-> TRUE, read |-> TRUE, body |-> b]
Responses == {SendErr, BodyErr} \cup {BodyOk(b) : b \in Bodies}

----------------------------------------------------------------------------
\* Terminal input: what event::poll / event::read deliver to one update() call.
Input(type, kind, code) == [type |-> type, kind |-> kind, code |-> code]

Timeout == Input("Timeout", "-", "-")
NonKey == Input("Resize", "-", "-")
PollErr == Input("PollErr", "-", "-")
ReadErr == Input("ReadErr", "-", "-")
KeyEv(kind, code) == Input("Key", kind, code)
NoInput == Input("-", "-", "-")

\* key codes: the six bound characters, an unbound character, a non-character key
KeyCodes == {"h", "j", "k", "l", "t", "q", "x", "Enter"}
DateKeys == {"h", "j", "k", "l", "t"}
NonPressCodes == {"j", "q"}

Inputs ==
    {Timeout, NonKey, PollErr, ReadErr}
      \cup {KeyEv("Press", c) : c \in KeyCodes}
      \cup {KeyEv(k, c) : k \in {"Release", "Repeat"}, c \in NonPressCodes}

----------------------------------------------------------------------------
\* date_time.format("%Y-%m-%d").to_string(): the calendar day, time of day dropped
FormatDate(t) == ToString(t \div TicksPerDay)

days(n) == n * TicksPerDay

\* get_nba_data with `.ok()?` on the send result instead of `.expect(..)`
get_nba_data_send_ok(date_time, resp) ==
    LET date == FormatDate(date_time)
        query == <<"?dates[]=", date>>
        url == <<"https://www.balldontlie.io/api/v1/games/">> \o query
    IN  IF ~resp.sent
        THEN [url |-> url, date |-> date, fail |-> "send", panic |-> FALSE, ret |-> None]
        ELSE IF ~resp.read
        THEN [url |-> url, date |-> date, fail |-> "read", panic |-> FALSE, ret |-> None]
        ELSE LET p == parse_json(resp.body)
             IN  IF p.panic
                 THEN [url |-> url, date |-> date, fail |-> "decode", panic |-> TRUE,
                       ret |-> None]
                 ELSE [url |-> url, date |-> date, fail |-> "none", panic |-> FALSE,
                       ret |-> Some(p.val)]

\* get_nba_data with the network's answer `resp`: the request it issued and
\* whether it returned (ret) or panicked
get_nba_data(date_time, resp) ==
    LET date == FormatDate(date_time)
        query == <<"?dates[]=", date>>
        url == <<"https://www.balldontlie.io/api/v1/games/">> \o query
    IN  IF ~resp.sent
        THEN [url |-> url, date |-> date, fail |-> "send", panic |-> TRUE, ret |-> None]
        ELSE IF ~resp.read
        THEN [url |-> url, date |-> date, fail |-> "read", panic |-> FALSE, ret |-> None]
        ELSE LET p == parse_json(resp.body)
             IN  IF p.panic
                 THEN [url |-> url, date |-> date, fail |-> "decode", panic |-> TRUE,
                       ret |-> None]
                 ELSE [url |-> url, date |-> date, fail |-> "none", panic |-> FALSE,
                       ret |-> Some(p.val)]

NoFetch == [url |-> <<>>, date |-> "", fail |-> "none", panic |-> FALSE, ret |-> None]

----------------------------------------------------------------------------
\* get_display_line with the two scores in the other order
get_display_line_swapped(game) ==
    <<game.home_team.abbreviation, " ", ToString(game.visitor_team_score), ":",
      ToString(game.home_team_score), " ", game.visitor_team.abbreviation, "\n">>

\* Game::get_display_line, as the pieces format! joins
get_display_line(game) ==
    <<game.home_team.abbreviation, " ", ToString(game.home_team_score), ":",
      ToString(game.visitor_team_score), " ", game.visitor_team.abbreviation, "\n">>

gen_navigation_paragraph ==
    "\nNavigation:\none day: j|k\none week: h|l\ntoday: t\nquit: q"

RECURSIVE Join(_)
Join(lines) == IF lines = <<>> THEN <<>> ELSE Head(lines) \o Join(Tail(lines))

Widget(text, title) == [text |-> text, title |-> title, borders |-> "ALL"]

\* ui that renders the game text in the future branch too
ui_future_text(a, t) ==
    LET date == FormatDate(a.day)
    IN  IF a.game_data.some
        THEN LET game_data == a.game_data.val.data
                 lines == [i \in 1..Len(game_data) |-> get_display_line(game_data[i])]
                 text == Append(Join(lines), gen_navigation_paragraph)
             IN  IF a.day <= t
                 THEN <<Widget(text, <<"NBA Game results of: ", date>>)>>
                 ELSE <<Widget(text, <<date, " is in the future.">>)>>
        ELSE <<>>

\* ui: the widgets rendered into the frame when the clock reads t
ui(a, t) ==
    LET date == FormatDate(a.day)
    IN  IF a.game_data.some
        THEN LET game_data == a.game_data.val.data
                 lines == [i \in 1..Len(game_data) |-> get_display_line(game_data[i])]
                 text == Append(Join(lines), gen_navigation_paragraph)
             IN  IF a.day <= t
                 THEN <<Widget(text, <<"NBA Game results of: ", date>>)>>
                 ELSE <<Widget(<<>>, <<date, " is in the future.">>)>>
        ELSE <<>>

----------------------------------------------------------------------------
\* the match with the week keys in the vi direction: h back, l forward
match_key_code_vi(a, code, t) ==
    CASE code = "h" -> [a EXCEPT !.day = @ - days(WeekDays)]
      [] code = "j" -> [a EXCEPT !.day = @ + days(1)]
      [] code = "k" -> [a EXCEPT !.day = @ - days(1)]
      [] code = "l" -> [a EXCEPT !.day = @ + days(WeekDays)]
      [] code = "t" -> [a EXCEPT !.day = t]
      [] code = "q" -> [a EXCEPT !.should_quit = TRUE]
      [] OTHER -> a

\* the match with `t` going to the start of today instead of the current moment
match_key_code_midnight(a, code, t) ==
    CASE code = "h" -> [a EXCEPT !.day = @ + days(WeekDays)]
      [] code = "j" -> [a EXCEPT !.day = @ + days(1)]
      [] code = "k" -> [a EXCEPT !.day = @ - days(1)]
      [] code = "l" -> [a EXCEPT !.day = @ - days(WeekDays)]
      [] code = "t" -> [a EXCEPT !.day = days(t \div TicksPerDay)]
      [] code = "q" -> [a EXCEPT !.should_quit = TRUE]
      [] OTHER -> a

\* the match on key.code in update()
match_key_code(a, code, t) ==
    CASE code = "h" -> [a EXCEPT !.day = @ + days(WeekDays)]
      [] code = "j" -> [a EXCEPT !.day = @ + days(1)]
      [] code = "k" -> [a EXCEPT !.day = @ - days(1)]
      [] code = "l" -> [a EXCEPT !.day = @ - days(WeekDays)]
      [] code = "t" -> [a EXCEPT !.day = t]
      [] code = "q" -> [a EXCEPT !.should_quit = TRUE]
      [] OTHER -> a

\* update() that falls back to the stale data when the fetch returns None
update_keep_stale(a, in, resp, t) ==
    IF in.type \in {"PollErr", "ReadErr"}
    THEN [app |-> a, res |-> "err", fetched |-> FALSE, fetch |-> NoFetch]
    ELSE IF in.type = "Key" /\ in.kind = "Press"
    THEN LET m == match_key_code(a, in.code, t)
             f == get_nba_data(m.day, resp)
         IN  IF f.panic
             THEN [app |-> m, res |-> "panic", fetched |-> TRUE, fetch |-> f]
             ELSE [app |-> IF f.ret.some THEN [m EXCEPT !.game_data = f.ret] ELSE m,
                   res |-> "ok", fetched |-> TRUE, fetch |-> f]
    ELSE [app |-> a, res |-> "ok", fetched |-> FALSE, fetch |-> NoFetch]

\* update() without the key.kind == Press test
update_any_kind(a, in, resp, t) ==
    IF in.type \in {"PollErr", "ReadErr"}
    THEN [app |-> a, res |-> "err", fetched |-> FALSE, fetch |-> NoFetch]
    ELSE IF in.type = "Key"
    THEN LET m == match_key_code(a, in.code, t)
             f == get_nba_data(m.day, resp)
         IN  IF f.panic
             THEN [app |-> m, res |-> "panic", fetched |-> TRUE, fetch |-> f]
             ELSE [app |-> [m EXCEPT !.game_data = f.ret], res |-> "ok",
                   fetched |-> TRUE, fetch |-> f]
    ELSE [app |-> a, res |-> "ok", fetched |-> FALSE, fetch |-> NoFetch]

\* update() that fetches for the date as it was before the key was applied
update_fetch_old_day(a, in, resp, t) ==
    IF in.type \in {"PollErr", "ReadErr"}
    THEN [app |-> a, res |-> "err", fetched |-> FALSE, fetch |-> NoFetch]
    ELSE IF in.type = "Key" /\ in.kind = "Press"
    THEN LET m == match_key_code(a, in.code, t)
             f == get_nba_data(a.day, resp)
         IN  IF f.panic
             THEN [app |-> m, res |-> "panic", fetched |-> TRUE, fetch |-> f]
             ELSE [app |-> [m EXCEPT !.game_data = f.ret], res |-> "ok",
                   fetched |-> TRUE, fetch |-> f]
    ELSE [app |-> a, res |-> "ok", fetched |-> FALSE, fetch |-> NoFetch]

\* update(): the input `in` is handled at clock t, the network answers `resp`.
\* res is "ok" (Ok(())), "err" (an Err from poll/read) or "panic".
update(a, in, resp, t) ==
    IF in.type \in {"PollErr", "ReadErr"}
    THEN [app |-> a, res |-> "err", fetched |-> FALSE, fetch |-> NoFetch]
    ELSE IF in.type = "Key" /\ in.kind = "Press"
    THEN LET m == match_key_code(a, in.code, t)
             f == get_nba_data(m.day, resp)
         IN  IF f.panic
             THEN [app |-> m, res |-> "panic", fetched |-> TRUE, fetch |-> f]
             ELSE [app |-> [m EXCEPT !.game_data = f.ret], res |-> "ok",
                   fetched |-> TRUE, fetch |-> f]
    ELSE [app |-> a, res |-> "ok", fetched |-> FALSE, fetch |-> NoFetch]

\* the offset in days the key table gives an input
KeyOffset(in) ==
    IF in.type = "Key" /\ in.kind = "Press"
    THEN CASE in.code = "h" -> 7
           [] in.code = "j" -> 1
           [] in.code = "k" -> -1
           [] in.code = "l" -> -7
           [] OTHER -> 0
    ELSE 0

----------------------------------------------------------------------------
\* The process: main() -> startup() -> run() { update; draw; quit check } -> shutdown()

NoApp == [day |-> 0, should_quit |-> FALSE, game_data |-> None]

StartTimes == {0, 1}

RtIdle == [stage |-> "idle"]
OsIdle == [pc |-> "idle"]

InitViewer ==
    /\ pc = "main"
    /\ now \in StartTimes
    /\ app = NoApp
    /\ raw_mode = FALSE
    /\ alt_screen = FALSE
    /\ result = "none"
    /\ exit_code = -1
    /\ frame = <<>>
    /\ iter = 0
    /\ lastEv = NoInput
    /\ nfetch = 0
    /\ lastFetch = NoFetch
    /\ base = 0
    /\ sum = 0
    /\ renders = 0
    /\ teardown = FALSE
    /\ setup_ok = FALSE

Init ==
    /\ InitViewer
    /\ rt = RtIdle
    /\ os = OsIdle

\* startup(): enable_raw_mode()?, then EnterAlternateScreen?; main returns the Err
Startup ==
    /\ pc = "main"
    /\ \E o \in {"ok", "raw_err", "alt_err"} :
         /\ raw_mode' = (o # "raw_err")
         /\ alt_screen' = (o = "ok")
         /\ setup_ok' = (o = "ok")
         /\ pc' = IF o = "ok" THEN "run" ELSE "done"
         /\ exit_code' = IF o = "ok" THEN exit_code ELSE 1
    /\ UNCHANGED <<now, app, result, frame, iter, lastEv, nfetch, lastFetch, base, sum,
                   renders, teardown>>
    /\ UNCHANGED auxVars

\* run(), up to the loop: Terminal::new(..)?, then the App literal, whose two
\* Utc::now() reads may be dt ticks apart
RunInit ==
    /\ pc = "run"
    /\ \E o \in {"ok", "err"}, resp \in Responses, dt \in {0, 1} :
         IF o = "err"
         THEN /\ result' = "err"
              /\ pc' = "shutdown"
              /\ UNCHANGED <<now, app, exit_code, nfetch, lastFetch, base>>
         ELSE LET f == get_nba_data((now + dt) - days(1), resp)
              IN  /\ now + dt <= MaxClock
                  /\ now' = now + dt
                  /\ nfetch' = nfetch + 1
                  /\ lastFetch' = f
                  /\ IF f.panic
                     THEN /\ pc' = "done"
                          /\ exit_code' = 101
                          /\ UNCHANGED <<app, base>>
                     ELSE /\ pc' = "update"
                          /\ app' = [day |-> now, should_quit |-> FALSE,
                                     game_data |-> f.ret]
                          /\ base' = now
                          /\ UNCHANGED exit_code
                  /\ UNCHANGED result
    /\ UNCHANGED <<raw_mode, alt_screen, frame, iter, lastEv, sum, renders, teardown,
                   setup_ok>>
    /\ UNCHANGED auxVars

\* the loop with the quit check moved ahead of the render
Update_break_before_draw ==
    /\ pc = "update"
    /\ iter < MaxIter
    /\ \E in \in Inputs, resp \in Responses :
         LET r == update(app, in, resp, now)
             isT == in = KeyEv("Press", "t")
         IN  /\ app' = r.app
             /\ lastEv' = in
             /\ nfetch' = IF r.fetched THEN nfetch + 1 ELSE nfetch
             /\ lastFetch' = IF r.fetched THEN r.fetch ELSE lastFetch
             /\ base' = IF isT THEN r.app.day ELSE base
             /\ sum' = IF isT THEN 0 ELSE sum + days(KeyOffset(in))
             /\ pc' = CASE r.res = "ok" /\ r.app.should_quit -> "shutdown"
                        [] r.res = "ok" /\ ~r.app.should_quit -> "draw"
                        [] r.res = "err" -> "shutdown"
                        [] r.res = "panic" -> "done"
             /\ result' = CASE r.res = "err" -> "err"
                            [] r.res = "ok" /\ r.app.should_quit -> "ok"
                            [] OTHER -> result
             /\ exit_code' = IF r.res = "panic" THEN 101 ELSE exit_code
    /\ iter' = iter + 1
    /\ UNCHANGED <<now, raw_mode, alt_screen, frame, renders, teardown, setup_ok>>
    /\ UNCHANGED auxVars

\* one call of update() from the loop
Update ==
    /\ pc = "update"
    /\ iter < MaxIter
    /\ \E in \in Inputs, resp \in Responses :
         LET r == update(app, in, resp, now)
             isT == in = KeyEv("Press", "t")
         IN  /\ app' = r.app
             /\ lastEv' = in
             /\ nfetch' = IF r.fetched THEN nfetch + 1 ELSE nfetch
             /\ lastFetch' = IF r.fetched THEN r.fetch ELSE lastFetch
             /\ base' = IF isT THEN r.app.day ELSE base
             /\ sum' = IF isT THEN 0 ELSE sum + days(KeyOffset(in))
             /\ pc' = CASE r.res = "ok" -> "draw"
                        [] r.res = "err" -> "shutdown"
                        [] r.res = "panic" -> "done"
             /\ result' = IF r.res = "err" THEN "err" ELSE result
             /\ exit_code' = IF r.res = "panic" THEN 101 ELSE exit_code
    /\ iter' = iter + 1
    /\ UNCHANGED <<now, raw_mode, alt_screen, frame, renders, teardown, setup_ok>>
    /\ UNCHANGED auxVars

\* t.draw(|f| ui(&app, f))?
Draw ==
    /\ pc = "draw"
    /\ \E o \in {"ok", "err"} :
         IF o = "err"
         THEN /\ result' = "err"
              /\ pc' = "shutdown"
              /\ UNCHANGED <<frame, renders>>
         ELSE /\ frame' = ui(app, now)
              /\ renders' = renders + 1
              /\ pc' = "check"
              /\ UNCHANGED result
    /\ UNCHANGED <<now, app, raw_mode, alt_screen, exit_code, iter, lastEv, nfetch,
                   lastFetch, base, sum, teardown, setup_ok>>
    /\ UNCHANGED auxVars

\* if app.should_quit { break; } ... Ok(())
Check ==
    /\ pc = "check"
    /\ pc' = IF app.should_quit THEN "shutdown" ELSE "update"
    /\ result' = IF app.should_quit THEN "ok" ELSE result
    /\ lastEv' = IF app.should_quit THEN lastEv ELSE NoInput
    /\ UNCHANGED <<now, app, raw_mode, alt_screen, exit_code, frame, iter, nfetch,
                   lastFetch, base, sum, renders, teardown, setup_ok>>
    /\ UNCHANGED auxVars

\* main() that drops the Result of run(): shutdown()? ; Ok(())
Shutdown_ignore_result ==
    /\ pc = "shutdown"
    /\ \E o \in {"ok", "leave_err", "raw_err"} :
         /\ alt_screen' = IF o = "leave_err" THEN alt_screen ELSE FALSE
         /\ raw_mode' = IF o = "ok" THEN FALSE ELSE raw_mode
         /\ exit_code' = IF o = "ok" THEN 0 ELSE 1
    /\ teardown' = TRUE
    /\ pc' = "done"
    /\ UNCHANGED <<now, app, result, frame, iter, lastEv, nfetch, lastFetch, base, sum,
                   renders, setup_ok>>
    /\ UNCHANGED auxVars

\* shutdown()? ; result? ; Ok(())
Shutdown ==
    /\ pc = "shutdown"
    /\ \E o \in {"ok", "leave_err", "raw_err"} :
         /\ alt_screen' = IF o = "leave_err" THEN alt_screen ELSE FALSE
         /\ raw_mode' = IF o = "ok" THEN FALSE ELSE raw_mode
         /\ exit_code' = IF o = "ok" /\ result = "ok" THEN 0 ELSE 1
    /\ teardown' = TRUE
    /\ pc' = "done"
    /\ UNCHANGED <<now, app, result, frame, iter, lastEv, nfetch, lastFetch, base, sum,
                   renders, setup_ok>>
    /\ UNCHANGED auxVars

\* the wall clock advances; it is read by run() before the loop, by update()
\* and by ui(), so it is let advance ahead of each of them
Tick ==
    /\ pc \in {"run", "update", "draw"}
    /\ now < MaxClock
    /\ now' = now + 1
    /\ UNCHANGED <<pc, app, raw_mode, alt_screen, result, exit_code, frame, iter,
                   lastEv, nfetch, lastFetch, base, sum, renders, teardown, setup_ok>>
    /\ UNCHANGED auxVars

Next == Startup \/ RunInit \/ Update \/ Draw \/ Check \/ Shutdown \/ Tick

Spec == Init /\ [][Next]_vars

----------------------------------------------------------------------------
\* Steps of the loop, as seen from outside.

\* this step is an update() call that was handed the input `in`
Handled(in) == pc = "update" /\ iter' = iter + 1 /\ lastEv' = in

\* this step issued a get_nba_data() call
Fetched == nfetch' = nfetch + 1

\* this step completed a render
Rendered == pc = "draw" /\ renders' = renders + 1

FutureWidget(d) == Widget(<<>>, <<FormatDate(d), " is in the future.">>)

----------------------------------------------------------------------------
\* C1: after any sequence of handled events the selected date is the date as of
\* the latest `t` (or of construction) plus the sum of the table's offsets
\* h = +7d, j = +1d, k = -1d, l = -7d, everything else 0.
C1_DateIsSumOfOffsets == app.day = base + sum

C1_Witness ==
    /\ iter >= 2
    /\ lastEv = KeyEv("Press", "h")
    /\ sum = days(6)
    /\ app.day = base + days(6)

\* C2: a handled `q` press sets the quit flag, leaves the date and the data alone
\* and issues no fetch.
C2_QuitNoFetch ==
    [][Handled(KeyEv("Press", "q")) =>
          /\ app'.should_quit
          /\ app'.day = app.day
          /\ app'.game_data = app.game_data
          /\ ~Fetched]_vars

\* C3: a handled h/j/k/l/t press issues exactly one fetch, for the calendar day of
\* the new selected date, and what the fetch returns (a result set or None)
\* becomes game_data as it is.
C3_DateKeyFetches ==
    [][\A c \in DateKeys :
          Handled(KeyEv("Press", c)) =>
             /\ Fetched
             /\ lastFetch'.date = FormatDate(app'.day)
             /\ (~lastFetch'.panic => app'.game_data = lastFetch'.ret)]_vars

\* a `k` press that returns to a day fetched before and replaces rendered data by None
C3_Witness ==
    /\ pc = "draw"
    /\ lastEv = KeyEv("Press", "k")
    /\ iter = 2
    /\ sum = 0
    /\ nfetch = 3
    /\ frame # <<>>
    /\ app.game_data = None
    /\ lastFetch.ret = None

C6_OtherKeyNoop ==
    [][\A c \in KeyCodes \ (DateKeys \cup {"q"}) :
          Handled(KeyEv("Press", c)) => (app' = app /\ ~Fetched)]_vars

\* C7: an update() call that gets no key press (timeout, a non-key event, a key
\* release or repeat) changes nothing and issues no fetch.
C7_NoPressNoChange ==
    [][\A in \in Inputs :
          (Handled(in) /\ in.type \in {"Timeout", "Resize", "Key"} /\ in.kind # "Press") =>
             (app' = app /\ ~Fetched /\ lastFetch' = lastFetch /\ pc' = "draw")]_vars

C7_Witness ==
    /\ pc = "draw"
    /\ iter = 2
    /\ lastEv = KeyEv("Release", "q")
    /\ ~app.should_quit
    /\ nfetch = 1

\* C8: a handled `t` press sets the selected date to the clock value of that
\* moment, whatever the date was before.
C8_TodayIsNow == [][Handled(KeyEv("Press", "t")) => app'.day = now]_vars

\* `t` pressed while the frame on screen is of a future date
C8_Witness ==
    /\ pc = "draw"
    /\ lastEv = KeyEv("Press", "t")
    /\ frame # <<>>
    /\ frame[1].title[2] = " is in the future."
    /\ app.day = now
    /\ now % TicksPerDay # 0

\* C9: a failed fetch in update() leaves game_data as it was and the process
\* goes on to render.
C9_FailedFetchKeepsData ==
    [][(pc = "update" /\ Fetched /\ lastFetch'.fail # "none") =>
          (app'.game_data = app.game_data /\ exit_code' = -1 /\ pc' = "draw")]_vars

\* C10 as claimed: every failed fetch (send, body read, decode) aborts the process.
C10_EveryFailureFatal ==
    [][(Fetched /\ lastFetch'.fail # "none") => (pc' = "done" /\ exit_code' = 101)]_vars

\* C10 amended: a send failure and a decode failure abort the process, after
\* which no step runs; an unreadable body does not: the fetch returns None and
\* the loop goes on.
C10_SendDecodeFatal ==
    [][/\ exit_code # 101
       /\ (Fetched /\ lastFetch'.fail \in {"send", "decode"}) =>
             (pc' = "done" /\ exit_code' = 101)
       /\ (Fetched /\ lastFetch'.fail = "read") =>
             (pc' \in {"update", "draw"} /\ exit_code' = -1 /\ app'.game_data = None)]_vars

C10_Witness ==
    /\ pc = "done"
    /\ exit_code = 101
    /\ iter = 1
    /\ lastFetch.fail = "decode"
    /\ lastEv = KeyEv("Press", "j")
    /\ app.day = base + days(1)

----------------------------------------------------------------------------
\* C11: every failed fetch (send, body read, decode) returns None, and a fetch
\* returns Some only when the body decoded.
C11_FailureReturnsAbsent ==
    [][Fetched =>
          /\ (lastFetch'.fail # "none") => (~lastFetch'.panic /\ lastFetch'.ret = None)
          /\ lastFetch'.ret.some => lastFetch'.fail = "none"]_vars

\* C12: a frame rendered for a present result of n games and a date not after the
\* clock is one bordered panel titled "NBA Game results of: <date>" whose text is
\* the n lines "<home> <home score>:<visitor score> <visitor>\n" in order, then
\* the navigation legend; for n = 0 the legend alone.
C12_ResultsPanel ==
    [][(Rendered /\ app.game_data.some /\ app.day <= now) =>
          LET g == app.game_data.val.data
              n == Len(g)
          IN  /\ Len(frame') = 1
              /\ frame'[1].title = <<"NBA Game results of: ", FormatDate(app.day)>>
              /\ frame'[1].borders = "ALL"
              /\ Len(frame'[1].text) = 8 * n + 1
              /\ \A i \in 1..n :
                    SubSeq(frame'[1].text, 8 * (i - 1) + 1, 8 * i) =
                       <<g[i].home_team.abbreviation, " ",
                         ToString(g[i].home_team_score), ":",
                         ToString(g[i].visitor_team_score), " ",
                         g[i].visitor_team.abbreviation, "\n">>
              /\ frame'[1].text[8 * n + 1] =
                    "\nNavigation:\none day: j|k\none week: h|l\ntoday: t\nquit: q"]_vars

C12_Witness ==
    /\ pc = "check"
    /\ app.game_data.some
    /\ Len(app.game_data.val.data) = 2
    /\ app.day <= now
    /\ Len(frame) = 1
    /\ Len(frame[1].text) = 17
    /\ SubSeq(frame[1].text, 1, 8) = <<"LAL", " ", "101", ":", "99", " ", "BOS", "\n">>

\* C13: a frame rendered while game_data is None is still one bordered panel,
\* with an empty body.
C13_AbsentDrawsBorder ==
    [][(Rendered /\ ~app.game_data.some) =>
          (Len(frame') = 1 /\ frame'[1].borders = "ALL" /\ frame'[1].text = <<>>)]_vars

\* C14: a process whose terminal setup failed ends only after shutdown() was
\* called, with raw mode off again.
C14_SetupFailureTornDown == (pc = "done" /\ ~setup_ok) => (teardown /\ ~raw_mode)

\* C15: the process exits 0 exactly when run() returned Ok through the quit flag
\* and shutdown() succeeded; an Err from poll/read or from draw leaves the loop
\* at once, with no fetch and no render in that step, shutdown() runs next and
\* the exit code is not 0.
C15_ExitCode ==
    /\ [](exit_code = 0 <=>
             (pc = "done" /\ result = "ok" /\ app.should_quit /\ teardown
                /\ ~raw_mode /\ ~alt_screen))
    /\ [][(pc \in {"update", "draw"} /\ result' = "err") =>
             (pc' = "shutdown" /\ ~Fetched /\ renders' = renders /\ app' = app)]_vars
    /\ [][(pc = "shutdown" /\ result = "err") =>
             (teardown' /\ pc' = "done" /\ exit_code' = 1)]_vars

C15_Witness ==
    /\ pc = "done"
    /\ iter = 2
    /\ lastEv = ReadErr
    /\ result = "err"
    /\ renders = 1
    /\ teardown
    /\ ~raw_mode
    /\ exit_code = 1

----------------------------------------------------------------------------
\* The round trip of a GameData through derive(Serialize) and parse_json.

\* derive(Serialize): every field is written, an Option as its value or null
EncodeOptStr(o) == IF o.some THEN JStr(o.val) ELSE JNull
EncodeOptU32(o) == IF o.some THEN JNum(o.val) ELSE JNull

EncodeTeam(t) ==
    JObj([id |-> JNum(t.id), abbreviation |-> JStr(t.abbreviation), city |-> JStr(t.city),
          conference |-> JStr(t.conference), division |-> JStr(t.division),
          full_name |-> JStr(t.full_name), name |-> JStr(t.name)])

EncodeGame(g) ==
    JObj([id |-> JNum(g.id), date |-> JStr(g.date),
          home_team |-> EncodeTeam(g.home_team),
          home_team_score |-> JNum(g.home_team_score),
          period |-> JNum(g.period), postseason |-> JBool(g.postseason),
          season |-> JNum(g.season), status |-> JStr(g.status),
          time |-> EncodeOptStr(g.time),
          visitor_team |-> EncodeTeam(g.visitor_team),
          visitor_team_score |-> JNum(g.visitor_team_score)])

EncodeMeta(m) ==
    JObj([current_page |-> JNum(m.current_page), next_page |-> EncodeOptU32(m.next_page),
          per_page |-> JNum(m.per_page)])

EncodeGameData(gd) ==
    JObj([data |-> JArr([i \in 1..Len(gd.data) |-> EncodeGame(gd.data[i])]),
          meta |-> EncodeMeta(gd.meta)])

\* GameData values to send round
TeamVals ==
    {[id |-> 14, abbreviation |-> "LAL", city |-> "Los Angeles", conference |-> "West",
      division |-> "Pacific", full_name |-> "Los Angeles Lakers", name |-> "Lakers"],
     [id |-> 2, abbreviation |-> "BOS", city |-> "Boston", conference |-> "East",
      division |-> "Atlantic", full_name |-> "Boston Celtics", name |-> "Celtics"]}

GameVals ==
    {[id |-> 1, date |-> "2023-01-15T00:00:00.000Z", home_team |-> h,
      home_team_score |-> 101, period |-> 4, postseason |-> p, season |-> 2022,
      status |-> "Final", time |-> t, visitor_team |-> CHOOSE v \in TeamVals : v # h,
      visitor_team_score |-> 0] :
        h \in TeamVals, p \in BOOLEAN, t \in {None, Some("7:30 PM")}}

MetaVals ==
    {[current_page |-> 1, next_page |-> n, per_page |-> 25] : n \in {None, Some(2)}}

GameDataVals ==
    {[data |-> d, meta |-> m] :
        d \in UNION {[1..n -> GameVals] : n \in 0..MaxGames}, m \in MetaVals}

InitRT ==
    /\ InitViewer
    /\ os = OsIdle
    /\ rt \in {[stage |-> "value", value |-> gd] : gd \in GameDataVals}

\* serde_json::to_string(&game_data)
RtEncode ==
    /\ rt.stage = "value"
    /\ rt' = [stage |-> "json", value |-> rt.value, json |-> EncodeGameData(rt.value)]
    /\ UNCHANGED <<viewerVars, os>>

\* parse_json(json)
RtDecode ==
    /\ rt.stage = "json"
    /\ rt' = [stage |-> "decoded", value |-> rt.value, json |-> rt.json,
              out |-> parse_json(rt.json)]
    /\ UNCHANGED <<viewerVars, os>>

NextRT == RtEncode \/ RtDecode

SpecRT == InitRT /\ [][NextRT]_vars

\* C16: a result set encoded to JSON and decoded by parse_json comes back equal,
\* field for field.
C16_RoundTrip ==
    rt.stage = "decoded" => (~rt.out.panic /\ rt.out.val = rt.value)

C16_Witness ==
    /\ rt.stage = "decoded"
    /\ Len(rt.value.data) = 2
    /\ rt.value.data[1].time = None
    /\ rt.value.data[2].time = Some("7:30 PM")
    /\ rt.value.meta.next_page = None
    /\ ~rt.out.panic
    /\ rt.out.val = rt.value

----------------------------------------------------------------------------
\* C17: a loop iteration is one update() call (one input at most, one fetch at
\* most), then one render of the state that call left, then the quit check; the
\* loop is left through the quit flag only after that render, and a fetch runs
\* only inside run()'s construction or an update() call, never beside a poll.
C17_LoopOrder ==
    /\ [](/\ pc = "update" => renders = iter
          /\ pc = "draw" => renders + 1 = iter
          /\ pc = "check" => (renders = iter /\ frame = ui(app, now))
          /\ (pc = "shutdown" /\ result = "ok") => (renders = iter /\ iter >= 1)
          /\ nfetch <= iter + 1)
    /\ [][/\ Fetched => pc \in {"run", "update"}
          /\ (pc = "update" /\ iter' # iter) =>
                (iter' = iter + 1 /\ nfetch' <= nfetch + 1 /\ pc' \in {"draw", "shutdown", "done"})
          /\ pc = "draw" => (app' = app /\ pc' \in {"draw", "check", "shutdown"})
          /\ pc = "check" => (app' = app /\ frame' = frame /\ pc' \in {"update", "shutdown"})]_vars

\* the quit check after the render that follows a `q` press
C17_Witness ==
    /\ pc = "shutdown"
    /\ result = "ok"
    /\ lastEv = KeyEv("Press", "q")
    /\ iter = 2
    /\ renders = 2
    /\ nfetch = 3
    /\ frame = ui(app, now)

\* C18: when run() has built the App, the selected date is the startup moment,
\* the quit flag is off, and game_data is what the fetch for the calendar day
\* before the selected date's returned, a day other than the selected date's.
C18_InitialState ==
    [][(pc = "run" /\ pc' = "update") =>
          /\ app'.day = now
          /\ ~app'.should_quit
          /\ app'.game_data = lastFetch'.ret
          /\ lastFetch'.date = FormatDate(app'.day - days(1))
          /\ lastFetch'.date # FormatDate(app'.day)]_vars

\* C19: once a key press has been handled (and the process lives), game_data is
\* what the latest fetch returned and that fetch asked for the calendar day of
\* the selected date.
C19_DataMatchesDate ==
    (nfetch >= 2 /\ exit_code # 101) =>
       (lastFetch.date = FormatDate(app.day) /\ app.game_data = lastFetch.ret)

\* a `j` press, then an iteration without input
C19_Witness ==
    /\ pc = "draw"
    /\ iter = 2
    /\ lastEv = Timeout
    /\ nfetch = 2
    /\ sum = days(1)
    /\ app.game_data.some
    /\ lastFetch.date = FormatDate(app.day)
    /\ frame # <<>>

----------------------------------------------------------------------------
\* The one-shot variant (src/src/old.rs): main() prints a header and calls
\* nba_client(date), which sends one request and prints the games.

\* old.rs Game: as the viewer's, with `time: String` required and `period: u8`
old_GameOk(v) ==
    /\ GameOk(v)
    /\ "time" \in DOMAIN v.obj
    /\ IsStr(v.obj.time)
    /\ v.obj.period.num <= 255

old_DecodeGame(v) == [DecodeGame(v) EXCEPT !.time = v.obj.time.str]

old_GameDataOk(v) ==
    /\ IsObj(v)
    /\ Has(v.obj, {"data", "meta"})
    /\ IsArr(v.obj.data)
    /\ \A i \in 1..Len(v.obj.data.arr) : old_GameOk(v.obj.data.arr[i])
    /\ MetaOk(v.obj.meta)

\* old.rs parse_json: the decoded GameData, or a panic
old_parse_json(json_data) ==
    IF old_GameDataOk(json_data)
    THEN [panic |-> FALSE,
          val |-> [data |-> [i \in 1..Len(json_data.obj.data.arr) |->
                                old_DecodeGame(json_data.obj.data.arr[i])],
                   meta |-> DecodeMeta(json_data.obj.meta)]]
    ELSE [panic |-> TRUE]

\* print_game_data with the two scores in the other order
print_game_data_swapped(game_data) ==
    [i \in 1..Len(game_data.data) |->
        <<game_data.data[i].home_team.abbreviation, " ",
          ToString(game_data.data[i].visitor_team_score), ":",
          ToString(game_data.data[i].home_team_score), " ",
          game_data.data[i].visitor_team.abbreviation>>]

\* print_game_data: the lines it writes with println!
print_game_data(game_data) ==
    [i \in 1..Len(game_data.data) |->
        <<game_data.data[i].home_team.abbreviation, " ",
          ToString(game_data.data[i].home_team_score), ":",
          ToString(game_data.data[i].visitor_team_score), " ",
          game_data.data[i].visitor_team.abbreviation>>]

OldDates == {"2023-01-15", "2023-01-16", "2024-02-29"}

OldBodies ==
    Bodies \cup {JDoc(<<JObj(WithTime(G1, JStr("7:00 PM"))),
                        JObj(WithTime(G2, JStr("7:30 PM")))>>)}

StatusCodes == {200, 404, 500}
is_success(status) == status >= 200 /\ status <= 299

OldResponses ==
    {[sent |-> FALSE]}
      \cup {[sent |-> TRUE, status |-> c, read |-> FALSE] : c \in StatusCodes}
      \cup {[sent |-> TRUE, status |-> c, read |-> TRUE, body |-> b] :
               c \in StatusCodes, b \in OldBodies}

OsStart(d) ==
    [pc |-> "main", date |-> d, stdout |-> <<>>, stderr |-> <<>>, requests |-> <<>>,
     resp |-> <<>>, ret |-> "running"]

InitOld ==
    /\ InitViewer
    /\ rt = RtIdle
    /\ os \in {OsStart(d) : d \in OldDates}

\* main(): println! of the header, then the call of nba_client
OldMain ==
    /\ os.pc = "main"
    /\ os' = [os EXCEPT !.pc = "client",
                        !.stdout = Append(@, <<"These are the results for ", os.date, "!">>)]
    /\ UNCHANGED <<viewerVars, rt>>

\* nba_client up to `.send().await?`
OldSend ==
    /\ os.pc = "client"
    /\ \E r \in OldResponses :
         LET url == <<"https://www.balldontlie.io/api/v1/games/", "?dates[]=", os.date>>
         IN  os' = IF r.sent
                   THEN [os EXCEPT !.pc = "response", !.requests = Append(@, url),
                                   !.resp = <<r>>]
                   ELSE [os EXCEPT !.pc = "done", !.requests = Append(@, url),
                                   !.ret = "err"]
    /\ UNCHANGED <<viewerVars, rt>>

\* nba_client from the status test to its return
OldBody ==
    /\ os.pc = "response"
    /\ LET r == os.resp[1]
       IN  os' = IF is_success(r.status)
                 THEN IF ~r.read
                      THEN [os EXCEPT !.pc = "done", !.ret = "err"]
                      ELSE LET p == old_parse_json(r.body)
                           IN  IF p.panic
                               THEN [os EXCEPT !.pc = "done", !.ret = "panic"]
                               ELSE [os EXCEPT !.pc = "done", !.ret = "ok",
                                               !.stdout = @ \o print_game_data(p.val)]
                 ELSE [os EXCEPT !.pc = "done", !.ret = "ok",
                                 !.stderr = Append(@, <<"Request failed with status: ",
                                                        ToString(r.status)>>)]
    /\ UNCHANGED <<viewerVars, rt>>

NextOld == OldMain \/ OldSend \/ OldBody

SpecOld == InitOld /\ [][NextOld]_vars

\* the response of a finished run had a success status and a decodable body
OldDecoded ==
    /\ os.resp # <<>>
    /\ is_success(os.resp[1].status)
    /\ os.resp[1].read
    /\ ~old_parse_json(os.resp[1].body).panic

OldGameLine(g) ==
    <<g.home_team.abbreviation, " ", ToString(g.home_team_score), ":",
      ToString(g.visitor_team_score), " ", g.visitor_team.abbreviation>>

\* C20 as claimed: a finished run has issued exactly one request, for the given
\* date; after a success status standard output holds the game lines of the
\* decoded result and nothing else; after another status it holds no game line
\* and the run returned normally.
C20_OnlyGameLines ==
    os.pc = "done" =>
       /\ os.requests = <<<<"https://www.balldontlie.io/api/v1/games/", "?dates[]=", os.date>>>>
       /\ OldDecoded =>
             LET g == old_parse_json(os.resp[1].body).val.data
             IN  /\ Len(os.stdout) = Len(g)
                 /\ \A i \in 1..Len(g) : os.stdout[i] = OldGameLine(g[i])
       /\ (os.resp # <<>> /\ ~is_success(os.resp[1].status)) =>
             (os.ret = "ok" /\ \A i \in 1..Len(os.stdout) : Len(os.stdout[i]) # 7)

\* C20 amended: as claimed, but standard output starts with the header line
\* "These are the results for <date>!" that main() prints before the request;
\* the game lines follow it, and after a non-success status it is the only line.
C20_HeaderThenGameLines ==
    os.pc = "done" =>
       /\ os.requests = <<<<"https://www.balldontlie.io/api/v1/games/", "?dates[]=", os.date>>>>
       /\ os.stdout[1] = <<"These are the results for ", os.date, "!">>
       /\ OldDecoded =>
             LET g == old_parse_json(os.resp[1].body).val.data
             IN  /\ os.ret = "ok"
                 /\ Len(os.stdout) = Len(g) + 1
                 /\ \A i \in 1..Len(g) : os.stdout[i + 1] = OldGameLine(g[i])
       /\ (os.resp # <<>> /\ ~is_success(os.resp[1].status)) =>
             (os.ret = "ok" /\ Len(os.stdout) = 1)

C20_Witness ==
    /\ os.pc = "done"
    /\ os.ret = "ok"
    /\ OldDecoded
    /\ Len(os.stdout) = 3
    /\ os.stdout[2] = <<"LAL", " ", "101", ":", "99", " ", "BOS">>
    /\ os.stdout[3] = <<"NYK", " ", "88", ":", "90", " ", "MIA">>

====
